---------------------------- MODULE Spec2Model ----------------------------
(***************************************************************************)
(* The messaging relay of sabucaps/messaging-backend (src/server.js, with  *)
(* the Message schema of src/unnamed/part_001), as a state machine.        *)
(*                                                                         *)
(* Every inbound socket event is a request.  A handler is asynchronous: it *)
(* runs synchronously up to its first await, and every later step is one   *)
(* storage round-trip together with the code that runs when it resolves.   *)
(* Steps of different requests interleave freely, also when both requests  *)
(* arrived on the same connection (socket.io does not wait for an async    *)
(* listener before it dispatches the next event).                          *)
(*                                                                         *)
(* Storage semantics are those of the driver the code is written against   *)
(* (Mongoose 5: updateOne resolves to {n, nModified}; _id is unique).      *)
(* Dates are milliseconds; two readings of new Date() may be equal.        *)
(*                                                                         *)
(* An awaited call resolves or rejects; rejections (storage, push          *)
(* transport) are drawn from a budget that is zero in the specifications   *)
(* without failures.  A rejected write is taken not to have been applied.  *)
(*                                                                         *)
(* Specifications:                                                         *)
(*   Spec          send, delete-message and join over a persisted          *)
(*                 collection                                              *)
(*   SpecSend      message events only, every sender, either connection    *)
(*   SpecDelete    delete-message events only, every requester             *)
(*   SpecPayload   sends with every shape of payload, joins, disconnects   *)
(*   SpecPush      sends with the push block, token registration (socket   *)
(*                 and REST), storage and transport failures               *)
(*   SpecPresence  join and disconnect                                     *)
(*   SpecSessions  sends while a user holds two joined connections         *)
(*   SpecFaulty    every socket event, with and without a payload, under   *)
(*                 storage failures                                        *)
(*   SpecReact     sends whose payload carries reactions, message-reaction *)
(*   SpecInsert    inserts with and without text, under storage failures   *)
(*   SpecTwins     delete-message and DELETE /api/messages/:id, each on its*)
(*                 own copy of one document                                *)
(*   SpecNotify    sends to a receiver with a registered token, under      *)
(*                 storage and transport failures                          *)
(*   SpecTokens    token registrations of one user, by event and by REST   *)
(*   SpecReuse     sends reusing the id of a stored message, with deletes  *)
(*   SpecArrivals  joins over a persisted collection during sends          *)
(*                                                                         *)
(* Events record the message id (the `message` broadcast the document);    *)
(* the savedAt stamps of acknowledgements are not recorded.                *)
(***************************************************************************)
EXTENDS Integers, Sequences, FiniteSets, TLC

\* ---- bounds of the model -------------------------------------------------
MaxReq  == 2      \* inbound events per behaviour
MaxTime == 2      \* the clock (milliseconds) runs over 1..MaxTime
MaxFaults == 1    \* storage / push transport failures per behaviour

\* ---- value universes -----------------------------------------------------
Users    == {"user_1", "user_2", "user_3"}   \* user_3: an id outside the two-user convention
MsgIds   == {"m1", "m2"}
Conns    == {"s1", "s2"}                     \* socket ids
Reqs     == 1..MaxReq
Times    == 1..MaxTime

None     == "none"        \* null / undefined of a string-valued field
NoUser   == "nouser"      \* payload without a user object
EmptyId  == ""            \* an empty userId
Absent   == "absent"      \* an event emitted without a payload (undefined)

\* keys of the presence table: whatever userId a join carried
PresenceKeys == Users \cup {EmptyId}
NoTime   == 0             \* null of a Date-valued field (deletedAt: default null)
NoSeenBy == {None}        \* payload without a seenBy field
NoBatch  == <<>>

VARIABLES
    store,            \* the messages collection, in insertion (natural) order
    now,              \* the server clock, new Date()
    connectedUsers,   \* server.js:116  { userId: socketId }
    sock,             \* per socket: open or not, and socket.userId
    req,              \* the inbound events and the position of their handlers
    sent,             \* every event emitted so far, with the request that emitted it
    userPushTokens,   \* server.js:113  { userId: 'ExpoPushToken[...]' }
    userStatus,       \* the UserStatus collection: userId -> expoPushToken
    pushes,           \* the calls of expo.sendPushNotificationsAsync made so far
    faults            \* failures the storage and the push transport may still produce

pushVars == <<userPushTokens, userStatus, pushes>>

vars == <<store, now, connectedUsers, sock, req, sent, pushVars, faults>>

\* ---- the Message document (src/unnamed/part_001) ----------------------------

\* (mutant) the convention with its default on the wrong side
otherOfSwapped(senderId) == IF senderId = "user_2" THEN "user_1" ELSE "user_2"

\* server.js:178 / part_001:83 : the other user of the 1-on-1 chat
otherOf(senderId) == IF senderId = "user_1" THEN "user_2" ELSE "user_1"

\* MessageSchema.pre('save'): a document without receiverId gets otherOf(sender)
PreSave(doc) ==
    IF doc.receiverId = None /\ doc.sender # None
    THEN [doc EXCEPT !.receiverId = otherOf(doc.sender)]
    ELSE doc

\* server.js:177-200 : the document built from the payload p at clock reading t
NewMessage(p, t) ==
    [ id         |-> p.mid,
      sender     |-> p.uid,
      createdAt  |-> IF p.createdAt # NoTime THEN p.createdAt ELSE t,
      seenBy     |-> IF p.seenBy # NoSeenBy THEN p.seenBy ELSE {p.uid},
      receiverId |-> otherOf(p.uid),
      isDeleted  |-> FALSE,
      deletedAt  |-> NoTime,
      deletedBy  |-> None,
      pushNotificationSent |-> FALSE,
      pushSentAt |-> NoTime,
      reactions  |-> p.reactions,
      text       |-> IF p.text # None THEN p.text ELSE "",
      v          |-> 0 ]

\* ---- the Message Store ---------------------------------------------------

Indexes(s, id) == {i \in 1..Len(s) : s[i].id = id}

HasId(s, id) == Indexes(s, id) # {}

\* Message.findById: the document, or null
NoDoc == [ id |-> None, sender |-> None, createdAt |-> NoTime, seenBy |-> {},
           receiverId |-> None, isDeleted |-> FALSE, deletedAt |-> NoTime,
           deletedBy |-> None, pushNotificationSent |-> FALSE,
           pushSentAt |-> NoTime, reactions |-> <<>>, text |-> "", v |-> 0 ]

FindById(s, id) ==
    IF HasId(s, id)
    THEN s[CHOOSE i \in Indexes(s, id) : \A j \in Indexes(s, id) : i <= j]
    ELSE NoDoc

\* (mutant) the text is not written: the stored document has the default
InsertDefaultText(s, doc) == Append(s, [PreSave(doc) EXCEPT !.text = ""])

\* message.save() of a new document: insertOne under the unique _id index.
\* TRUE when the insert is accepted, FALSE when it fails with E11000.
InsertAccepted(s, doc) == ~HasId(s, doc.id)

Insert(s, doc) == Append(s, PreSave(doc))

\* Message.updateOne({_id}, {$set: fields}) applied to the first match
SetDeleted(doc, at, by) ==
    [doc EXCEPT !.isDeleted = TRUE, !.deletedAt = at, !.deletedBy = by]

ClearDeleted(doc) ==
    [doc EXCEPT !.isDeleted = FALSE, !.deletedAt = NoTime, !.deletedBy = None]

FirstIndex(s, id) == CHOOSE i \in Indexes(s, id) : \A j \in Indexes(s, id) : i <= j

\* (mutant) the update inserts the document when nothing matches (upsert)
UpdateOneDeleteUpsert(s, id, at, by) ==
    IF HasId(s, id)
    THEN [s EXCEPT ![FirstIndex(s, id)] = SetDeleted(@, at, by)]
    ELSE Append(s, SetDeleted([NoDoc EXCEPT !.id = id], at, by))

UpdateOneDelete(s, id, at, by) ==
    IF HasId(s, id)
    THEN [s EXCEPT ![FirstIndex(s, id)] = SetDeleted(@, at, by)]
    ELSE s

UpdateOneRevert(s, id) ==
    IF HasId(s, id)
    THEN [s EXCEPT ![FirstIndex(s, id)] = ClearDeleted(@)]
    ELSE s

\* savedMessage.save() after the push (server.js:237-239): the two modified
\* paths are written to the stored document
MarkPushSent(s, id, t) ==
    IF HasId(s, id)
    THEN [s EXCEPT ![FirstIndex(s, id)] =
            [@ EXCEPT !.pushNotificationSent = TRUE, !.pushSentAt = t]]
    ELSE s

\* message.save() of a loaded document whose reactions array was replaced:
\* the pre('save') hook runs first (part_001:79-86), then Mongoose writes the
\* modified paths under the version the document was loaded with ({_id, __v}
\* in the filter, $set reactions and, when the hook set it, receiverId,
\* $inc __v) and raises a VersionError when no document matches
SaveAccepted(s, doc) == HasId(s, doc.id) /\ s[FirstIndex(s, doc.id)].v = doc.v

SaveReactions(s, doc) ==
    [s EXCEPT ![FirstIndex(s, doc.id)] =
        [@ EXCEPT !.reactions = doc.reactions,
                  !.receiverId = IF PreSave(doc).receiverId # doc.receiverId
                                 THEN PreSave(doc).receiverId ELSE @,
                  !.v = doc.v + 1]]

\* result.nModified of the soft-delete update: 0 when nothing matched or when
\* the matched document already holds exactly the values being set
NModified(s, id, at, by) ==
    IF HasId(s, id) /\ FindById(s, id) # SetDeleted(FindById(s, id), at, by)
    THEN 1 ELSE 0

\* .sort({createdAt: 1}) : insertion sort, ties kept in natural order
RECURSIVE InsertSorted(_, _)
InsertSorted(sorted, doc) ==
    IF sorted = <<>> THEN <<doc>>
    ELSE IF doc.createdAt < Head(sorted).createdAt THEN <<doc>> \o sorted
    ELSE <<Head(sorted)>> \o InsertSorted(Tail(sorted), doc)

RECURSIVE SortByCreatedAt(_)
SortByCreatedAt(s) ==
    IF s = <<>> THEN <<>>
    ELSE InsertSorted(SortByCreatedAt(SubSeq(s, 1, Len(s) - 1)), s[Len(s)])

\* (mutant) the pending query without its isDeleted filter
IsPendingOrDeleted(doc, userId) ==
    doc.receiverId = userId /\ userId \notin doc.seenBy

\* server.js:133-138 : the pending query of join
IsPending(doc, userId) ==
    doc.receiverId = userId /\ userId \notin doc.seenBy /\ doc.isDeleted = FALSE

\* (mutant) the pending query returns the oldest match only
FindPendingFirst(s, userId) ==
    LET Match(doc) == IsPending(doc, userId)
        found == SortByCreatedAt(SelectSeq(s, Match))
    IN  IF found = <<>> THEN <<>> ELSE << found[1] >>

FindPending(s, userId) ==
    LET Match(doc) == IsPending(doc, userId)
    IN  SortByCreatedAt(SelectSeq(s, Match))

\* ---- the read surface (server.js:497-610, routes/messages.js) -------------

DefaultLimit == 50          \* GET /api/messages : parseInt(limit) || 50
HistoryLimit == 100         \* GET /api/messages/history : parseInt(limit) || 100
PendingWindow == 86400000   \* GET /api/messages/pending/:userId : 24 h in ms

RECURSIVE Reverse(_)
Reverse(s) == IF s = <<>> THEN <<>> ELSE Append(Reverse(Tail(s)), Head(s))

\* .skip(skip).limit(limit)
Page(s, skip, limit) ==
    SubSeq(s, skip + 1, IF skip + limit < Len(s) THEN skip + limit ELSE Len(s))

NotDeleted(doc) == doc.isDeleted = FALSE

\* Message.find({ isDeleted: false })
FindActive(s) == SelectSeq(s, NotDeleted)

\* GET /api/messages : newest first, paged, then reversed
ListActive(s, limit, skip) ==
    Reverse(Page(Reverse(SortByCreatedAt(FindActive(s))), skip, limit))

\* GET /api/messages/history : oldest first, paged
History(s, limit, skip) == Page(SortByCreatedAt(FindActive(s)), skip, limit)

\* GET /api/messages/pending/:userId at clock reading t
PendingForUser(s, userId, t) ==
    LET Match(doc) == IsPending(doc, userId) /\ doc.createdAt >= t - PendingWindow
    IN  SortByCreatedAt(SelectSeq(s, Match))

\* routes/messages.js : GET / and GET /user/:userId
RouterAll(s) == SortByCreatedAt(FindActive(s))

RouterUser(s, userId) ==
    LET Match(doc) == (doc.sender = userId \/ doc.receiverId = userId)
                      /\ doc.isDeleted = FALSE
    IN  SortByCreatedAt(SelectSeq(s, Match))

\* ---- connections and emitted events --------------------------------------

OpenConns == {c \in Conns : sock[c].open}

Event(r, ev, to, mid, status, at, by, batch) ==
    [ req |-> r, ev |-> ev, to |-> to, mid |-> mid, status |-> status,
      at |-> at, by |-> by, batch |-> batch ]

\* (mutant) the reply goes to every open connection
ReplyToAll(r, ev, mid, status, at) ==
    Event(r, ev, OpenConns, mid, status, at, None, NoBatch)

\* socket.emit(ev, ...) of request r : to the connection of the request, which
\* receives it while it is open
Reply(r, ev, mid, status, at) ==
    Event(r, ev, {req[r].conn} \cap OpenConns, mid, status, at, None, NoBatch)

\* res.status(code).json(...) of a REST request
Response(r, code) == Event(r, "response", {}, None, code, NoTime, None, NoBatch)

\* (mutant) the broadcast reaches the requesting connection only
BroadcastToRequester(r, ev, mid, at, by) ==
    Event(r, ev, {req[r].conn}, mid, "", at, by, NoBatch)

\* io.emit(ev, ...) : to every open connection
Broadcast(r, ev, mid, at, by) ==
    Event(r, ev, OpenConns, mid, "", at, by, NoBatch)

\* (mutant) the persisted message goes to every open connection but the sender's
BroadcastDocToOthers(r, ev, doc) ==
    Event(r, ev, OpenConns \ {req[r].conn}, doc.id, "", NoTime, None, <<doc>>)

\* (mutant) last connection wins: a joined connection receives the message
\* only while it is the one the presence table holds for its user
BroadcastDocLastWins(r, ev, doc) ==
    Event(r, ev,
          {c \in OpenConns : sock[c].userId # None
                               => connectedUsers[sock[c].userId] = c},
          doc.id, "", NoTime, None, <<doc>>)

\* io.emit(ev, savedMessage.toObject()) : the document, to every open connection
BroadcastDoc(r, ev, doc) ==
    Event(r, ev, OpenConns, doc.id, "", NoTime, None, <<doc>>)

\* ---- requests ------------------------------------------------------------

\* doc0 and fault are not program state: doc0 records the stored document (or
\* NoDoc) the event found on arrival, so that properties can speak of "before
\* the request"; fault records which awaited calls of the handler rejected
IdleReq == [ kind |-> "idle", conn |-> None, pc |-> "idle", mid |-> None,
             uid |-> None, seenBy |-> NoSeenBy, createdAt |-> NoTime,
             receiverId |-> None, reactions |-> <<>>, text |-> None,
             emoji |-> None,
             doc |-> NoDoc, token |-> None,
             at |-> NoTime, doc0 |-> NoDoc, fault |-> {} ]

\* requests are taken in order: r is the first one not yet used
CanStart(r, c) ==
    /\ req[r].pc = "idle"
    /\ \A q \in Reqs : q < r => req[q].pc # "idle"
    /\ sock[c].open

\* REST requests arrive on no socket
CanStartRest(r) ==
    /\ req[r].pc = "idle"
    /\ \A q \in Reqs : q < r => req[q].pc # "idle"

\* a reading of new Date(): the clock may have advanced since the last one
ClockReadings == {t \in Times : t = now \/ t = now + 1}

\* an awaited storage or transport call resolves, or rejects
Outcomes == IF faults > 0 THEN {"ok", "fail"} ELSE {"ok"}

Remaining(o) == IF o = "fail" THEN faults - 1 ELSE faults

\* request r after its awaited call op had outcome o, continuing at pc
After(r, op, o, pc) ==
    [req EXCEPT ![r].pc = pc,
                ![r].fault = IF o = "fail" THEN @ \cup {op} ELSE @]

\* ---- socket.on('message')  (server.js:155-257) ----------------------------

\* a reactions entry (part_001:38-41)
Reaction(user, emoji) == [user |-> user, emoji |-> emoji]

\* reactions lists a client may put in the payload of a send: none (the field
\* missing or empty, both stored as []), one entry, two entries of one user
ReactionLists ==
    { <<>>,
      << Reaction("user_2", "a") >>,
      << Reaction("user_1", "a"), Reaction("user_1", "b") >> }

\* payloads of the message event: with and without an id, a user, a user id,
\* seenBy (also an empty list), createdAt, receiverId, reactions and text
AllPayloads ==
    [ mid : MsgIds \cup {None}, uid : Users \cup {None, NoUser},
      seenBy : {NoSeenBy, {}, {"user_2"}}, createdAt : {NoTime, 1},
      receiverId : {None, "user_3"}, reactions : ReactionLists,
      text : {None, "hi"} ]

\* the payloads without reactions and without text
PlainPayloads == {p \in AllPayloads : p.reactions = <<>> /\ p.text = None}

\* (mutant) only the id is required
ValidMessageIdOnly(p) == p.mid # None

\* the message event emitted with no payload at all
AbsentPayload ==
    [ mid |-> None, uid |-> Absent, seenBy |-> NoSeenBy, createdAt |-> NoTime,
      receiverId |-> None, reactions |-> <<>>, text |-> None ]

\* server.js:160 : the payload carries an id, a user and a user id
ValidMessage(p) == p.mid # None /\ p.uid # NoUser /\ p.uid # None

\* the event arrives: validation, then findById is issued.  Line 156 reads
\* messageData.user before the try: without a payload the async listener
\* rejects and nothing handles the rejection
StartMessage(r, c, p) ==
    /\ CanStart(r, c)
    /\ IF p = AbsentPayload
       THEN /\ req' = [req EXCEPT ![r] =
                        [ IdleReq EXCEPT !.kind = "message", !.conn = c,
                                         !.pc = "rejected", !.uid = Absent ]]
            /\ sent' = sent
       ELSE IF ValidMessage(p)
       THEN /\ req' = [req EXCEPT ![r] =
                        [ IdleReq EXCEPT !.kind = "message", !.conn = c,
                            !.pc = "find", !.mid = p.mid, !.uid = p.uid,
                            !.seenBy = p.seenBy, !.createdAt = p.createdAt,
                            !.receiverId = p.receiverId,
                            !.reactions = p.reactions, !.text = p.text,
                            !.doc0 = FindById(store, p.mid) ]]
            /\ sent' = sent
       ELSE /\ req' = [req EXCEPT ![r] =
                        [ IdleReq EXCEPT !.kind = "message", !.conn = c,
                                         !.pc = "done", !.mid = p.mid,
                                         !.uid = p.uid ]]
            /\ sent' = sent \cup
                 {Event(r, "error", {c}, p.mid, "", NoTime, None, NoBatch)}
    /\ UNCHANGED <<store, now, connectedUsers, sock, pushVars, faults>>

\* (mutant) the existence check never finds the message
IsDuplicateNever(s, id) == FALSE

\* (mutant) the existence check looks among the active messages only
IsDuplicateActive(s, id) == FindById(s, id) # NoDoc /\ ~FindById(s, id).isDeleted

\* server.js:165-166 : existingMessage is not null
IsDuplicate(s, id) == FindById(s, id) # NoDoc

\* findById resolves (server.js:165-200): duplicate, or build the document;
\* or it rejects (server.js:250-256)
MessageFind(r) ==
    /\ req[r].kind = "message" /\ req[r].pc = "find"
    /\ \E o \in Outcomes :
         /\ faults' = Remaining(o)
         /\ IF o = "fail"
            THEN /\ sent' = sent \cup {Reply(r, "error", req[r].mid, "", NoTime)}
                 /\ req' = After(r, "find", o, "done")
                 /\ now' = now
            ELSE IF IsDuplicate(store, req[r].mid)
            THEN /\ sent' = sent \cup
                      {Reply(r, "message-delivered", req[r].mid, "duplicate", NoTime)}
                 /\ req' = [req EXCEPT ![r].pc = "done"]
                 /\ now' = now
            ELSE /\ IF req[r].createdAt # NoTime
                    THEN /\ now' = now
                         /\ req' = [req EXCEPT ![r].pc = "save"]
                    ELSE \E t \in ClockReadings :
                         /\ now' = t
                         /\ req' = [req EXCEPT ![r].pc = "save", ![r].at = t]
                 /\ sent' = sent
    /\ UNCHANGED <<store, connectedUsers, sock, pushVars>>

\* Expo.isExpoPushToken (server.js:218, 359, 458)
Tokens == {"ExpoPushToken[a]", "ExpoPushToken[b]", "not-a-token", None}

\* (mutant) every token passes the format check
IsExpoPushTokenAlways(token) == TRUE

IsExpoPushToken(token) == token \in {"ExpoPushToken[a]", "ExpoPushToken[b]"}

\* (mutant) a push is due to every receiver
PushDueAlways(receiverId) == TRUE

\* server.js:218 : the receiver has a well-formed token in memory
PushDue(receiverId) ==
    userPushTokens[receiverId] # None /\ IsExpoPushToken(userPushTokens[receiverId])

PushAttempt(r, mid, token) == [ req |-> r, mid |-> mid, to |-> token ]

\* (mutant) the push send is awaited first: the broadcast and the
\* acknowledgement wait for it, and are not emitted when it is due
MessageSaveAwaitsPush(r) ==
    /\ req[r].kind = "message" /\ req[r].pc = "save"
    /\ \E o \in Outcomes :
         LET doc == NewMessage(req[r], req[r].at)
             receiverId == otherOf(req[r].uid)
         IN  /\ faults' = Remaining(o)
             /\ IF o = "ok" /\ InsertAccepted(store, doc)
                THEN /\ store' = Insert(store, doc)
                     /\ IF PushDue(receiverId)
                        THEN /\ pushes' = pushes \cup
                                  {PushAttempt(r, doc.id, userPushTokens[receiverId])}
                             /\ sent' = sent
                             /\ req' = [req EXCEPT ![r].pc = "push"]
                        ELSE /\ pushes' = pushes
                             /\ sent' = sent \cup
                                  { BroadcastDoc(r, "message", PreSave(doc)),
                                    Reply(r, "message-delivered", doc.id,
                                          "delivered", NoTime) }
                             /\ req' = [req EXCEPT ![r].pc = "count"]
                ELSE /\ store' = store
                     /\ sent' = sent \cup {Reply(r, "error", doc.id, "", NoTime)}
                     /\ pushes' = pushes
                     /\ req' = After(r, "save", o, "done")
    /\ UNCHANGED <<now, connectedUsers, sock, userPushTokens, userStatus>>

\* message.save() resolves or rejects (server.js:203-233, 250-256)
MessageSave(r) ==
    /\ req[r].kind = "message" /\ req[r].pc = "save"
    /\ \E o \in Outcomes :
         LET doc == NewMessage(req[r], req[r].at)
             receiverId == otherOf(req[r].uid)
         IN  /\ faults' = Remaining(o)
             /\ IF o = "ok" /\ InsertAccepted(store, doc)
                THEN /\ store' = Insert(store, doc)
                     /\ sent' = sent \cup
                          { BroadcastDoc(r, "message", PreSave(doc)),
                            Reply(r, "message-delivered", doc.id, "delivered",
                                  NoTime) }
                     /\ IF PushDue(receiverId)
                        THEN /\ pushes' = pushes \cup
                                  {PushAttempt(r, doc.id, userPushTokens[receiverId])}
                             /\ req' = [req EXCEPT ![r].pc = "push"]
                        ELSE /\ pushes' = pushes
                             /\ req' = [req EXCEPT ![r].pc = "count"]
                ELSE /\ store' = store
                     /\ sent' = sent \cup {Reply(r, "error", doc.id, "", NoTime)}
                     /\ pushes' = pushes
                     /\ req' = After(r, "save", o, "done")
    /\ UNCHANGED <<now, connectedUsers, sock, userPushTokens, userStatus>>

\* (mutant) a rejected push is not caught by the inner try: it reaches the
\* handler's catch, which reports an error to the sender
MessagePushUncaught(r) ==
    /\ req[r].kind = "message" /\ req[r].pc = "push"
    /\ \E o \in Outcomes :
         /\ faults' = Remaining(o)
         /\ IF o = "ok"
            THEN \E t \in ClockReadings :
                   /\ now' = t /\ sent' = sent
                   /\ req' = [req EXCEPT ![r].pc = "mark", ![r].at = t]
            ELSE /\ now' = now
                 /\ sent' = sent \cup {Reply(r, "error", req[r].mid, "", NoTime)}
                 /\ req' = After(r, "push", o, "done")
    /\ UNCHANGED <<store, connectedUsers, sock, pushVars>>

\* expo.sendPushNotificationsAsync resolves or rejects (server.js:233-243)
MessagePush(r) ==
    /\ req[r].kind = "message" /\ req[r].pc = "push"
    /\ \E o \in Outcomes :
         /\ faults' = Remaining(o)
         /\ IF o = "ok"
            THEN \E t \in ClockReadings :
                   /\ now' = t
                   /\ req' = [req EXCEPT ![r].pc = "mark", ![r].at = t]
            ELSE /\ now' = now
                 /\ req' = After(r, "push", o, "count")
    /\ UNCHANGED <<store, connectedUsers, sock, sent, pushVars>>

\* savedMessage.save() resolves or rejects (server.js:239-247)
MessageMark(r) ==
    /\ req[r].kind = "message" /\ req[r].pc = "mark"
    /\ \E o \in Outcomes :
         /\ faults' = Remaining(o)
         /\ store' = IF o = "ok" THEN MarkPushSent(store, req[r].mid, req[r].at)
                     ELSE store
         /\ req' = After(r, "mark", o, "count")
    /\ UNCHANGED <<now, connectedUsers, sock, sent, pushVars>>

\* countDocuments resolves or rejects (server.js:247-256)
MessageCount(r) ==
    /\ req[r].kind = "message" /\ req[r].pc = "count"
    /\ \E o \in Outcomes :
         /\ faults' = Remaining(o)
         /\ sent' = IF o = "ok" THEN sent
                    ELSE sent \cup {Reply(r, "error", req[r].mid, "", NoTime)}
         /\ req' = After(r, "count", o, "done")
    /\ UNCHANGED <<store, now, connectedUsers, sock, pushVars>>

\* ---- socket.on('delete-message')  (server.js:260-352) ---------------------

\* the event arrives: the update document is built (new Date()) and issued.
\* Without a payload the destructuring throws inside the try, and the catch
\* (line 348) throws again reading data.messageId: the listener rejects
StartDelete(r, c, mid, uid) ==
    /\ CanStart(r, c)
    /\ IF mid = Absent
       THEN /\ now' = now
            /\ req' = [req EXCEPT ![r] =
                        [ IdleReq EXCEPT !.kind = "delete", !.conn = c,
                                         !.pc = "rejected", !.mid = Absent ]]
       ELSE \E t \in ClockReadings :
            /\ now' = t
            /\ req' = [req EXCEPT ![r] =
                        [ IdleReq EXCEPT !.kind = "delete", !.conn = c,
                                         !.pc = "update", !.mid = mid,
                                         !.uid = uid, !.at = t,
                                         !.doc0 = FindById(store, mid) ]]
    /\ UNCHANGED <<store, connectedUsers, sock, sent, pushVars, faults>>

\* the catch of the handler (server.js:345-351) after the awaited call op
\* rejected
DeleteCaught(r, op, o) ==
    /\ sent' = sent \cup {Reply(r, "delete-error", req[r].mid, "failed", NoTime)}
    /\ req' = After(r, op, o, "done")
    /\ store' = store

\* updateOne resolves (server.js:267-280, 299) or rejects
DeleteUpdate(r) ==
    /\ req[r].kind = "delete" /\ req[r].pc = "update"
    /\ \E o \in Outcomes :
         /\ faults' = Remaining(o)
         /\ IF o = "fail" THEN DeleteCaught(r, "update", o)
            ELSE /\ store' = UpdateOneDelete(store, req[r].mid, req[r].at, req[r].uid)
                 /\ req' = [req EXCEPT ![r].pc =
                      IF NModified(store, req[r].mid, req[r].at, req[r].uid) = 0
                      THEN "find0" ELSE "find1"]
                 /\ sent' = sent
    /\ UNCHANGED <<now, connectedUsers, sock, pushVars>>

\* nModified === 0 : findById resolves (server.js:280-296) or rejects
DeleteFindExisting(r) ==
    /\ req[r].kind = "delete" /\ req[r].pc = "find0"
    /\ \E o \in Outcomes :
         /\ faults' = Remaining(o)
         /\ IF o = "fail" THEN DeleteCaught(r, "find", o)
            ELSE LET existingMessage == FindById(store, req[r].mid)
                 IN  /\ sent' = sent \cup
                          { IF existingMessage = NoDoc
                            THEN Reply(r, "delete-error", req[r].mid, "not-found",
                                       NoTime)
                            ELSE Reply(r, "delete-success", existingMessage.id, "",
                                       existingMessage.deletedAt) }
                     /\ req' = [req EXCEPT ![r].pc = "done"]
                     /\ store' = store
    /\ UNCHANGED <<now, connectedUsers, sock, pushVars>>

\* server.js:302-309 : the requester is the sender or the resolved receiver
ResolvedReceiver(doc) ==
    IF doc.receiverId = None /\ doc.sender # None
    THEN otherOf(doc.sender)
    ELSE doc.receiverId

Authorized(doc, userId) ==
    doc.sender = userId \/ ResolvedReceiver(doc) = userId

\* nModified # 0 : findById resolves (server.js:299-343) or rejects
DeleteAuthorize(r) ==
    /\ req[r].kind = "delete" /\ req[r].pc = "find1"
    /\ \E o \in Outcomes :
         /\ faults' = Remaining(o)
         /\ IF o = "fail" THEN DeleteCaught(r, "find", o)
            ELSE LET updatedMessage == FindById(store, req[r].mid)
                 IN  /\ IF Authorized(updatedMessage, req[r].uid)
                        THEN /\ sent' = sent \cup
                                  { Broadcast(r, "message-deleted",
                                              updatedMessage.id,
                                              updatedMessage.deletedAt, req[r].uid),
                                    Reply(r, "delete-success", updatedMessage.id,
                                          "", updatedMessage.deletedAt) }
                             /\ req' = [req EXCEPT ![r].pc = "done"]
                        ELSE /\ sent' = sent
                             /\ req' = [req EXCEPT ![r].pc = "revert"]
                     /\ store' = store
    /\ UNCHANGED <<now, connectedUsers, sock, pushVars>>

\* the reverting updateOne resolves (server.js:313-328) or rejects
DeleteRevert(r) ==
    /\ req[r].kind = "delete" /\ req[r].pc = "revert"
    /\ \E o \in Outcomes :
         /\ faults' = Remaining(o)
         /\ IF o = "fail" THEN DeleteCaught(r, "revert", o)
            ELSE /\ store' = UpdateOneRevert(store, req[r].mid)
                 /\ sent' = sent \cup
                      {Reply(r, "delete-error", req[r].mid, "unauthorized", NoTime)}
                 /\ req' = [req EXCEPT ![r].pc = "done"]
    /\ UNCHANGED <<now, connectedUsers, sock, pushVars>>

\* ---- DELETE /api/messages/:id  (server.js:613-681) -------------------------

\* the request arrives: 400 without a userId, else findById is issued
StartRestDelete(r, mid, uid) ==
    /\ CanStartRest(r)
    /\ IF uid = None
       THEN /\ req' = [req EXCEPT ![r] =
                        [ IdleReq EXCEPT !.kind = "rest-delete", !.pc = "done",
                                         !.mid = mid ]]
            /\ sent' = sent \cup {Response(r, "400")}
       ELSE /\ req' = [req EXCEPT ![r] =
                        [ IdleReq EXCEPT !.kind = "rest-delete", !.pc = "find",
                                         !.mid = mid, !.uid = uid,
                                         !.doc0 = FindById(store, mid) ]]
            /\ sent' = sent
    /\ UNCHANGED <<store, now, connectedUsers, sock, pushVars, faults>>

\* findById resolves: 404 for no message, 403 for a requester who is neither
\* the sender nor the resolved receiver, else the soft-delete update is issued
\* with a reading of the clock; it rejects: 500
RestDeleteFind(r) ==
    /\ req[r].kind = "rest-delete" /\ req[r].pc = "find"
    /\ \E o \in Outcomes, t \in ClockReadings :
         LET message == FindById(store, req[r].mid)
         IN  /\ faults' = Remaining(o)
             /\ IF o = "fail"
                THEN /\ sent' = sent \cup {Response(r, "500")}
                     /\ req' = After(r, "find", o, "done")
                     /\ now' = now
                ELSE IF message = NoDoc
                THEN /\ sent' = sent \cup {Response(r, "404")}
                     /\ req' = [req EXCEPT ![r].pc = "done"]
                     /\ now' = now
                ELSE IF ~Authorized(message, req[r].uid)
                THEN /\ sent' = sent \cup {Response(r, "403")}
                     /\ req' = [req EXCEPT ![r].pc = "done"]
                     /\ now' = now
                ELSE /\ sent' = sent
                     /\ req' = [req EXCEPT ![r].pc = "update", ![r].at = t]
                     /\ now' = t
    /\ UNCHANGED <<store, connectedUsers, sock, pushVars>>

\* updateOne resolves: 200; it rejects: 500
RestDeleteUpdate(r) ==
    /\ req[r].kind = "rest-delete" /\ req[r].pc = "update"
    /\ \E o \in Outcomes :
         /\ faults' = Remaining(o)
         /\ IF o = "fail"
            THEN /\ store' = store
                 /\ sent' = sent \cup {Response(r, "500")}
                 /\ req' = After(r, "update", o, "done")
            ELSE /\ store' = UpdateOneDelete(store, req[r].mid, req[r].at,
                                            req[r].uid)
                 /\ sent' = sent \cup {Response(r, "200")}
                 /\ req' = [req EXCEPT ![r].pc = "done"]
    /\ UNCHANGED <<now, connectedUsers, sock, pushVars>>

RestDeleteSteps(r) == RestDeleteFind(r) \/ RestDeleteUpdate(r)

\* ---- socket.on('message-reaction')  (server.js:389-411) -------------------

\* server.js:396-401 : the user's entries are removed, and one is appended
\* when an emoji is given
SetReaction(reactions, userId, emoji) ==
    LET kept == SelectSeq(reactions, LAMBDA x : x.user # userId)
    IN  IF emoji # None THEN Append(kept, Reaction(userId, emoji)) ELSE kept

\* the event arrives and findById is issued
StartReaction(r, c, mid, uid, emoji) ==
    /\ CanStart(r, c)
    /\ req' = [req EXCEPT ![r] =
                [ IdleReq EXCEPT !.kind = "message-reaction", !.conn = c,
                                 !.pc = "find", !.mid = mid, !.uid = uid,
                                 !.emoji = emoji,
                                 !.doc0 = FindById(store, mid) ]]
    /\ UNCHANGED <<store, now, connectedUsers, sock, sent, pushVars, faults>>

\* findById resolves: a message that exists and is not deleted gets the new
\* reactions in memory, and save() is issued; otherwise the handler ends
ReactionFind(r) ==
    /\ req[r].kind = "message-reaction" /\ req[r].pc = "find"
    /\ \E o \in Outcomes :
         LET message == FindById(store, req[r].mid)
         IN  /\ faults' = Remaining(o)
             /\ IF o = "ok" /\ message # NoDoc /\ ~message.isDeleted
                THEN req' = [req EXCEPT
                       ![r].pc = "save",
                       ![r].doc = [message EXCEPT !.reactions =
                           SetReaction(@, req[r].uid, req[r].emoji)]]
                ELSE req' = After(r, "find", o, "done")
    /\ UNCHANGED <<store, now, connectedUsers, sock, sent, pushVars>>

\* save() resolves and the updated message is broadcast, or it rejects and
\* the catch logs the error (server.js:403-410)
ReactionSave(r) ==
    /\ req[r].kind = "message-reaction" /\ req[r].pc = "save"
    /\ \E o \in Outcomes :
         /\ faults' = Remaining(o)
         /\ IF o = "ok" /\ SaveAccepted(store, req[r].doc)
            THEN /\ store' = SaveReactions(store, req[r].doc)
                 /\ sent' = sent \cup
                      {BroadcastDoc(r, "message-reaction-updated",
                                    [PreSave(req[r].doc) EXCEPT !.v = @ + 1])}
                 /\ req' = [req EXCEPT ![r].pc = "done"]
            ELSE /\ store' = store
                 /\ sent' = sent
                 /\ req' = After(r, "save", "fail", "done")
    /\ UNCHANGED <<now, connectedUsers, sock, pushVars>>

ReactionSteps(r) == ReactionFind(r) \/ ReactionSave(r)

\* ---- socket.on('join')  (server.js:123-152) -------------------------------

\* the event arrives: presence is registered and the pending query is issued.
\* Without a payload the destructuring throws and the catch (line 149) logs
StartJoin(r, c, userId) ==
    /\ CanStart(r, c)
    /\ IF userId = Absent
       THEN /\ req' = [req EXCEPT ![r] =
                        [ IdleReq EXCEPT !.kind = "join", !.conn = c,
                                         !.pc = "done", !.uid = Absent ]]
            /\ UNCHANGED <<connectedUsers, sock>>
       ELSE /\ connectedUsers' = [connectedUsers EXCEPT ![userId] = c]
            /\ sock' = [sock EXCEPT ![c].userId = userId]
            /\ req' = [req EXCEPT ![r] =
                        [ IdleReq EXCEPT !.kind = "join", !.conn = c,
                                         !.pc = "query", !.uid = userId ]]
    /\ UNCHANGED <<store, now, sent, pushVars, faults>>

\* the pending query resolves (server.js:139-144) or rejects (145-147)
JoinQuery(r) ==
    /\ req[r].kind = "join" /\ req[r].pc = "query"
    /\ \E o \in Outcomes :
         LET pendingMessages == FindPending(store, req[r].uid)
         IN  /\ faults' = Remaining(o)
             /\ sent' = IF o = "ok" /\ Len(pendingMessages) > 0
                        THEN sent \cup
                             {Event(r, "pending-messages",
                                    {req[r].conn} \cap OpenConns, None, "",
                                    NoTime, None, pendingMessages)}
                        ELSE sent
             /\ req' = After(r, "query", o, "done")
    /\ UNCHANGED <<store, now, connectedUsers, sock, pushVars>>

\* ---- socket.on('disconnect')  (server.js:414-423) -------------------------

\* (mutant) the disconnect clears the whole presence table
DisconnectClearsAll(c) ==
    /\ sock[c].open
    /\ sock' = [sock EXCEPT ![c].open = FALSE]
    /\ connectedUsers' = [u \in PresenceKeys |-> None]
    /\ UNCHANGED <<store, now, req, sent, pushVars, faults>>

\* if (socket.userId) delete connectedUsers[socket.userId]
Disconnect(c) ==
    /\ sock[c].open
    /\ sock' = [sock EXCEPT ![c].open = FALSE]
    /\ connectedUsers' =
         IF sock[c].userId \notin {None, EmptyId}
         THEN [connectedUsers EXCEPT ![sock[c].userId] = None]
         ELSE connectedUsers
    /\ UNCHANGED <<store, now, req, sent, pushVars, faults>>

\* ---- socket.on('register-push-token')  (server.js:355-386) ----------------

\* the event arrives: the token is checked, stored in memory, and the upsert
\* of the UserStatus record is issued.  Without a payload the destructuring
\* throws and the catch (line 382) answers push-token-error
StartRegister(r, c, userId, token) ==
    /\ CanStart(r, c)
    /\ IF userId = Absent \/ ~IsExpoPushToken(token)
       THEN /\ req' = [req EXCEPT ![r] =
                        [ IdleReq EXCEPT !.kind = "register", !.conn = c,
                            !.pc = "done", !.uid = userId, !.token = token ]]
            /\ sent' = sent \cup
                 {Event(r, "push-token-error", {c}, None, "", NoTime, None, NoBatch)}
            /\ userPushTokens' = userPushTokens
       ELSE /\ req' = [req EXCEPT ![r] =
                        [ IdleReq EXCEPT !.kind = "register", !.conn = c,
                            !.pc = "upsert", !.uid = userId, !.token = token ]]
            /\ sent' = sent
            /\ userPushTokens' = [userPushTokens EXCEPT ![userId] = token]
    /\ UNCHANGED <<store, now, connectedUsers, sock, userStatus, pushes, faults>>

\* UserStatus.findOneAndUpdate(..., {upsert: true}) resolves or rejects
RegisterUpsert(r) ==
    /\ req[r].kind = "register" /\ req[r].pc = "upsert"
    /\ \E o \in Outcomes :
         /\ faults' = Remaining(o)
         /\ userStatus' = IF o = "ok"
                          THEN [userStatus EXCEPT ![req[r].uid] = req[r].token]
                          ELSE userStatus
         /\ sent' = sent \cup
              { IF o = "ok"
                THEN Reply(r, "push-token-registered", None, "", NoTime)
                ELSE Reply(r, "push-token-error", None, "", NoTime) }
         /\ req' = After(r, "upsert", o, "done")
    /\ UNCHANGED <<store, now, connectedUsers, sock, userPushTokens, pushes>>

\* ---- POST /api/save-push-token  (server.js:454-494) -----------------------

StartSavePushToken(r, userId, token) ==
    /\ CanStartRest(r)
    /\ IF ~IsExpoPushToken(token)
       THEN /\ req' = [req EXCEPT ![r] =
                        [ IdleReq EXCEPT !.kind = "save-push-token",
                            !.pc = "done", !.uid = userId, !.token = token ]]
            /\ sent' = sent \cup {Response(r, "400")}
            /\ userPushTokens' = userPushTokens
       ELSE /\ req' = [req EXCEPT ![r] =
                        [ IdleReq EXCEPT !.kind = "save-push-token",
                            !.pc = "upsert", !.uid = userId, !.token = token ]]
            /\ sent' = sent
            /\ userPushTokens' = [userPushTokens EXCEPT ![userId] = token]
    /\ UNCHANGED <<store, now, connectedUsers, sock, userStatus, pushes, faults>>

SavePushTokenUpsert(r) ==
    /\ req[r].kind = "save-push-token" /\ req[r].pc = "upsert"
    /\ \E o \in Outcomes :
         /\ faults' = Remaining(o)
         /\ userStatus' = IF o = "ok"
                          THEN [userStatus EXCEPT ![req[r].uid] = req[r].token]
                          ELSE userStatus
         /\ sent' = sent \cup {Response(r, IF o = "ok" THEN "200" ELSE "500")}
         /\ req' = After(r, "upsert", o, "done")
    /\ UNCHANGED <<store, now, connectedUsers, sock, userPushTokens, pushes>>

\* ---- the relay ------------------------------------------------------------

\* Documents a send persists, and their soft-deleted form
Persisted(mid, uid, createdAt) ==
    PreSave(NewMessage([ mid |-> mid, uid |-> uid, seenBy |-> NoSeenBy,
                         createdAt |-> createdAt, receiverId |-> None,
                         reactions |-> <<>>, text |-> None ],
                       createdAt))

\* A document written before receiverId existed (part_001:43-47)
Legacy(mid, uid, createdAt) ==
    [Persisted(mid, uid, createdAt) EXCEPT !.receiverId = None]

\* no token registered, in memory or persisted
NoTokens == [u \in Users |-> None]

\* the server starts over a persisted Message collection; registries holds
\* the token registrations made before, f the failures still to come
InitFrom(stores, registries, f) ==
    /\ store \in stores
    /\ now = 1
    /\ connectedUsers = [u \in PresenceKeys |-> None]
    /\ sock = [c \in Conns |-> [open |-> TRUE, userId |-> None]]
    /\ req = [r \in Reqs |-> IdleReq]
    /\ sent = {}
    /\ userPushTokens \in registries
    /\ userStatus = userPushTokens
    /\ pushes = {}
    /\ faults = f

\* no registration, no failure
InitWith(stores) == InitFrom(stores, {NoTokens}, 0)

MessageSteps(r) == MessageFind(r) \/ MessageSave(r) \/ MessageCount(r)

PushSteps(r) == MessagePush(r) \/ MessageMark(r)

DeleteSteps(r) ==
    DeleteUpdate(r) \/ DeleteFindExisting(r) \/ DeleteAuthorize(r) \/ DeleteRevert(r)

\* -- the whole relay over a persisted collection: send, delete, join
RelayStores ==
    { <<>>,
      << Persisted("m1", "user_1", 2) >>,
      << Persisted("m1", "user_1", 2), Persisted("m2", "user_1", 1) >>,
      << SetDeleted(Persisted("m1", "user_1", 1), 1, "user_1"),
         Persisted("m2", "user_3", 1) >> }

RelayPayloads ==
    {p \in PlainPayloads : /\ p.mid # None /\ p.uid \in {"user_1", "user_2"}
                         /\ p.seenBy # {} /\ p.receiverId = None
                         /\ (p.seenBy = NoSeenBy) = (p.createdAt = NoTime)}

Init == InitWith(RelayStores)

Next ==
    \/ \E r \in Reqs, p \in RelayPayloads : StartMessage(r, "s1", p)
    \/ \E r \in Reqs : MessageSteps(r)
    \/ \E r \in Reqs, mid \in MsgIds, uid \in {"user_1", "user_3"} :
         StartDelete(r, "s1", mid, uid)
    \/ \E r \in Reqs : DeleteSteps(r)
    \/ \E r \in Reqs, c \in Conns, u \in Users : StartJoin(r, c, u)
    \/ \E r \in Reqs : JoinQuery(r)

Spec == Init /\ [][Next]_vars

\* -- sends only: every sender and id, from either connection, empty collection
InitSend == InitWith({<<>>})

SendPayloads ==
    {p \in PlainPayloads : /\ p.seenBy = NoSeenBy /\ p.createdAt = NoTime
                         /\ p.receiverId = None /\ p.uid \in Users
                         /\ (p.mid = None => p.uid = "user_1")}

NextSend ==
    \/ \E r \in Reqs, c \in Conns, p \in SendPayloads : StartMessage(r, c, p)
    \/ \E r \in Reqs : MessageSteps(r)

SpecSend == InitSend /\ [][NextSend]_vars

\* -- delete-message only: every requester, over a persisted collection
DeleteStores ==
    { << Persisted("m1", "user_1", 1) >>,
      << SetDeleted(Persisted("m1", "user_1", 1), 1, "user_1") >>,
      << Legacy("m1", "user_2", 1) >> }

InitDelete == InitWith(DeleteStores)

NextDelete ==
    \/ \E r \in Reqs, c \in Conns, mid \in MsgIds, uid \in Users :
         StartDelete(r, c, mid, uid)
    \/ \E r \in Reqs : DeleteSteps(r)

SpecDelete == InitDelete /\ [][NextDelete]_vars

\* -- sends with every shape of payload, while connections come and go
PayloadMenu ==
    {p \in PlainPayloads :
       /\ p.createdAt = 1
       /\ \/ /\ p.mid = "m1" /\ p.uid = "user_1"
             /\ p.seenBy = NoSeenBy \/ p.receiverId = None
          \/ /\ p.seenBy = NoSeenBy /\ p.receiverId = None
             /\ \/ p.mid = "m2" /\ p.uid = "user_2"
                \/ p.mid = None /\ p.uid = "user_1"}

NextPayload ==
    \/ \E r \in Reqs, c \in Conns, p \in PayloadMenu : StartMessage(r, c, p)
    \/ \E r \in Reqs : MessageSteps(r)
    \/ \E r \in Reqs : StartJoin(r, "s2", "user_2")
    \/ \E r \in Reqs : JoinQuery(r)
    \/ \E c \in Conns : Disconnect(c)

SpecPayload == InitSend /\ [][NextPayload]_vars

\* -- sends, push and token registration, with storage and transport failures
PushRegistries ==
    { NoTokens, [NoTokens EXCEPT !["user_2"] = "ExpoPushToken[a]"] }

InitPush == InitFrom({<<>>}, PushRegistries, MaxFaults)

PushPayloads ==
    {p \in PlainPayloads :
       /\ p.createdAt = 1 /\ p.seenBy = NoSeenBy
       /\ \/ p.mid = "m1" /\ p.uid = "user_1"
          \/ /\ p.receiverId = None
             /\ \/ p.mid = "m2" /\ p.uid = "user_1"
                \/ p.mid = "m1" /\ p.uid \in {"user_2", None, NoUser}
                \/ p.mid = None /\ p.uid = "user_1"}

NextPush ==
    \/ \E r \in Reqs, p \in PushPayloads : StartMessage(r, "s1", p)
    \/ \E r \in Reqs : MessageSteps(r)
    \/ \E r \in Reqs : PushSteps(r)
    \/ \E r \in Reqs, u \in {"user_2", "user_3"},
          t \in {"ExpoPushToken[b]", "not-a-token", None} :
         StartRegister(r, "s1", u, t)
    \/ \E r \in Reqs : RegisterUpsert(r)
    \/ \E r \in Reqs, t \in {"ExpoPushToken[b]", "not-a-token"} :
         StartSavePushToken(r, "user_2", t)
    \/ \E r \in Reqs : SavePushTokenUpsert(r)

SpecPush == InitPush /\ [][NextPush]_vars

\* -- sends while users hold one or two joined connections
\* the connection `older` was joined by u, then `newer` by v (or by nobody)
InitSessions ==
    /\ store = <<>> /\ now = 1 /\ sent = {} /\ pushes = {} /\ faults = 0
    /\ req = [r \in Reqs |-> IdleReq]
    /\ userPushTokens = NoTokens /\ userStatus = NoTokens
    /\ \E older, newer \in Conns, v \in {"user_1", "user_2", None} :
         LET u == "user_2"
         IN  /\ older # newer
             /\ sock = [c \in Conns |->
                         [open |-> TRUE, userId |-> IF c = older THEN u ELSE v]]
             /\ connectedUsers =
                  [x \in PresenceKeys |-> IF x = v THEN newer
                                   ELSE IF x = u THEN older ELSE None]

SessionPayloads ==
    {p \in PlainPayloads :
       /\ p.seenBy = NoSeenBy /\ p.createdAt = 1 /\ p.receiverId = None
       /\ \/ p.mid = "m1" /\ p.uid = "user_1"
          \/ p.mid = "m2" /\ p.uid = "user_2"}

NextSessions ==
    \/ \E r \in Reqs, c \in Conns, p \in SessionPayloads : StartMessage(r, c, p)
    \/ \E r \in Reqs : MessageSteps(r)
    \/ \E r \in Reqs : StartJoin(r, "s1", "user_2")
    \/ \E r \in Reqs : JoinQuery(r)
    \/ \E c \in Conns : Disconnect(c)

SpecSessions == InitSessions /\ [][NextSessions]_vars

\* -- sends whose payload carries reactions, and message-reaction events
ReactStores ==
    { <<>>,
      << [Persisted("m1", "user_1", 1) EXCEPT
            !.reactions = << Reaction("user_2", "a") >>] >>,
      << SetDeleted(Persisted("m1", "user_1", 1), 1, "user_1") >>,
      << Legacy("m1", "user_1", 1) >> }

InitReact == InitWith(ReactStores)

ReactPayloads ==
    {p \in AllPayloads :
       /\ p.mid = "m1" /\ p.uid = "user_1" /\ p.seenBy = NoSeenBy
       /\ p.createdAt = 1 /\ p.receiverId = None}

Emojis == {"a", "b"}

NextReact ==
    \/ \E r \in Reqs, p \in ReactPayloads : StartMessage(r, "s1", p)
    \/ \E r \in Reqs : MessageSteps(r)
    \/ \E r \in Reqs, c \in Conns, uid \in {"user_1", "user_2"},
          emoji \in Emojis \cup {None} : StartReaction(r, c, "m1", uid, emoji)
    \/ \E r \in Reqs : ReactionSteps(r)

SpecReact == InitReact /\ [][NextReact]_vars

\* -- inserts of messages with and without text, under storage failures
InsertStores == { <<>>, << Persisted("m1", "user_1", 1) >> }

InitInsert == InitFrom(InsertStores, {NoTokens}, MaxFaults)

InsertPayloads ==
    {p \in AllPayloads :
       /\ p.mid # None /\ p.uid = "user_1" /\ p.seenBy = NoSeenBy
       /\ p.createdAt = NoTime /\ p.receiverId = None /\ p.reactions = <<>>}

NextInsert ==
    \/ \E r \in Reqs, p \in InsertPayloads : StartMessage(r, "s1", p)
    \/ \E r \in Reqs : MessageSteps(r)

SpecInsert == InitInsert /\ [][NextInsert]_vars

\* -- the two ways to delete, each on its own copy of the same document: the
\* event deletes m1, the REST operation deletes m2
Twins(doc) == << [doc EXCEPT !.id = "m1"], [doc EXCEPT !.id = "m2"] >>

TwinStores ==
    { <<>>,
      Twins(Persisted("m1", "user_1", 1)),
      Twins(SetDeleted(Persisted("m1", "user_1", 1), 1, "user_1")),
      Twins(Legacy("m1", "user_3", 1)) }

InitTwins == InitWith(TwinStores)

NextTwins ==
    \/ \E r \in Reqs, uid \in Users : StartDelete(r, "s1", "m1", uid)
    \/ \E r \in Reqs : DeleteSteps(r)
    \/ \E r \in Reqs, uid \in Users \cup {None} : StartRestDelete(r, "m2", uid)
    \/ \E r \in Reqs : RestDeleteSteps(r)

SpecTwins == InitTwins /\ [][NextTwins]_vars

\* -- sends to a receiver with a registered token, under storage and
\* transport failures
NotifyRegistries == { [NoTokens EXCEPT !["user_2"] = "ExpoPushToken[a]"] }

InitNotify == InitFrom({<<>>}, NotifyRegistries, MaxFaults)

NotifyPayloads ==
    {p \in PlainPayloads :
       /\ p.mid # None /\ p.uid = "user_1" /\ p.seenBy = NoSeenBy
       /\ p.createdAt = 1 /\ p.receiverId = None}

NextNotify ==
    \/ \E r \in Reqs, p \in NotifyPayloads : StartMessage(r, "s1", p)
    \/ \E r \in Reqs : MessageSteps(r)
    \/ \E r \in Reqs : PushSteps(r)

SpecNotify == InitNotify /\ [][NextNotify]_vars

\* -- token registrations of one user, by event and by REST, with two tokens,
\* under storage failures
InitTokens == InitFrom({<<>>}, PushRegistries, MaxFaults)

NextTokens ==
    \/ \E r \in Reqs, c \in Conns, t \in Tokens : StartRegister(r, c, "user_2", t)
    \/ \E r \in Reqs : RegisterUpsert(r)
    \/ \E r \in Reqs, t \in Tokens : StartSavePushToken(r, "user_2", t)
    \/ \E r \in Reqs : SavePushTokenUpsert(r)

SpecTokens == InitTokens /\ [][NextTokens]_vars

\* -- sends that reuse the id of a stored message, deleted before or
\* meanwhile, to a receiver with a registered token
ReuseStores ==
    { << SetDeleted(Persisted("m1", "user_1", 1), 1, "user_1") >>,
      << Persisted("m1", "user_1", 1) >> }

InitReuse == InitFrom(ReuseStores, NotifyRegistries, 0)

ReusePayloads ==
    {p \in PlainPayloads :
       /\ p.uid \in {"user_1", "user_3"} /\ p.mid # None /\ p.seenBy = NoSeenBy
       /\ p.createdAt = NoTime /\ p.receiverId = None}

NextReuse ==
    \/ \E r \in Reqs, c \in Conns, p \in ReusePayloads : StartMessage(r, c, p)
    \/ \E r \in Reqs : MessageSteps(r)
    \/ \E r \in Reqs : PushSteps(r)
    \/ \E r \in Reqs, uid \in {"user_1", "user_3"} : StartDelete(r, "s2", "m1", uid)
    \/ \E r \in Reqs : DeleteSteps(r)

SpecReuse == InitReuse /\ [][NextReuse]_vars

\* -- joins over a persisted collection while messages are sent and
\* connections close; no deletes
InitArrivals == InitWith(RelayStores)

ArrivalPayloads == {p \in RelayPayloads : p.uid = "user_1"}

NextArrivals ==
    \/ \E r \in Reqs, p \in ArrivalPayloads : StartMessage(r, "s1", p)
    \/ \E r \in Reqs : MessageSteps(r)
    \/ \E r \in Reqs, c \in Conns, u \in {"user_1", "user_2"} : StartJoin(r, c, u)
    \/ \E r \in Reqs : JoinQuery(r)
    \/ Disconnect("s2")

SpecArrivals == InitArrivals /\ [][NextArrivals]_vars

\* -- every socket event, with and without a payload, under storage failures
FaultyStores == { << Persisted("m1", "user_1", 1) >> }

InitFaulty == InitFrom(FaultyStores, {NoTokens}, MaxFaults)

FaultyPayloads ==
    {AbsentPayload} \cup
    {p \in SendPayloads : p.mid = "m2" /\ p.uid = "user_1"}

NextFaulty ==
    \/ \E r \in Reqs, p \in FaultyPayloads : StartMessage(r, "s1", p)
    \/ \E r \in Reqs : MessageSteps(r)
    \/ \E r \in Reqs, mid \in MsgIds \cup {Absent}, uid \in {"user_1", "user_3"} :
         StartDelete(r, "s2", mid, uid)
    \/ \E r \in Reqs : DeleteSteps(r)
    \/ \E r \in Reqs, u \in {"user_2", Absent} : StartJoin(r, "s2", u)
    \/ \E r \in Reqs : JoinQuery(r)
    \/ \E r \in Reqs, u \in {"user_2", Absent} :
         StartRegister(r, "s1", u, "ExpoPushToken[b]")
    \/ \E r \in Reqs : RegisterUpsert(r)
    \/ Disconnect("s2")

SpecFaulty == InitFaulty /\ [][NextFaulty]_vars

\* -- presence: join and disconnect over a persisted collection
InitPresence == InitFrom(RelayStores, PushRegistries, 0)

NextPresence ==
    \/ \E r \in Reqs, c \in Conns, u \in PresenceKeys : StartJoin(r, c, u)
    \/ \E r \in Reqs : JoinQuery(r)
    \/ \E c \in Conns : Disconnect(c)

SpecPresence == InitPresence /\ [][NextPresence]_vars

\* ==== properties ===========================================================

EventsOf(r) == {e \in sent : e.req = r}

Done(r, kind) == req[r].kind = kind /\ req[r].pc = "done"

\* ---- C1 ------------------------------------------------------------------
C1_Inv ==
    /\ \A id \in MsgIds : Cardinality(Indexes(store, id)) <= 1
    /\ \A r \in Reqs :
         Done(r, "message") /\ req[r].doc0 # NoDoc =>
           /\ EventsOf(r) # {}
           /\ \A e \in EventsOf(r) :
                /\ e.ev = "message-delivered" /\ e.status = "duplicate"
                /\ e.mid = req[r].mid /\ e.to = {req[r].conn}

C1_Step ==
    \A r \in Reqs :
      req[r].kind = "message" /\ req[r].doc0 # NoDoc /\ req'[r].pc # req[r].pc
        => store' = store

\* C1: the store never holds two records with one id; a send whose id is
\* already stored when it arrives is answered to its sender with
\* message-delivered 'duplicate' and with nothing else (no broadcast), and no
\* step of its handler changes the store.
C1_DuplicateSendIsAcknowledgedOnly == []C1_Inv /\ [][C1_Step]_vars

C1_Witness ==
    \E r \in Reqs :
      /\ Done(r, "message") /\ req[r].doc0 # NoDoc
      /\ \E e \in EventsOf(r) : e.status = "duplicate"
      /\ Len(store) = 1

\* ---- C2 ------------------------------------------------------------------
\* C2: of two sends with the same id that have both been handled, however
\* their steps interleaved, exactly one record is stored, one sender was
\* acknowledged 'delivered' and the other 'duplicate', and neither received
\* an error event.
C2_ConcurrentDuplicateIsNotAnError ==
    \A r1, r2 \in Reqs :
      /\ r1 # r2 /\ Done(r1, "message") /\ Done(r2, "message")
      /\ req[r1].mid # None /\ req[r1].mid = req[r2].mid
      => /\ Cardinality(Indexes(store, req[r1].mid)) = 1
         /\ \A e \in EventsOf(r1) \cup EventsOf(r2) : e.ev # "error"
         /\ \E e \in EventsOf(r1) \cup EventsOf(r2) : e.status = "duplicate"

\* ---- C3 ------------------------------------------------------------------
Alone(r) == \A q \in Reqs : q # r => req[q].pc = "idle"

SameDeletion(d1, d2) ==
    /\ d1.isDeleted = d2.isDeleted
    /\ d1.deletedAt = d2.deletedAt
    /\ d1.deletedBy = d2.deletedBy

\* C3: a delete-message for a stored message (active or soft-deleted) by a
\* userId that is neither its sender nor its resolved receiver, handled with
\* no other request around, is answered with delete-error (Unauthorized) and
\* leaves isDeleted, deletedAt and deletedBy as they were before the request.
C3_UnauthorizedDeleteChangesNothing ==
    \A r \in Reqs :
      /\ Done(r, "delete") /\ Alone(r)
      /\ req[r].doc0 # NoDoc /\ ~Authorized(req[r].doc0, req[r].uid)
      => /\ EventsOf(r) # {}
         /\ \A e \in EventsOf(r) :
              e.ev = "delete-error" /\ e.status = "unauthorized"
         /\ SameDeletion(FindById(store, req[r].mid), req[r].doc0)

\* ---- C4 ------------------------------------------------------------------
\* C4: a delete-message by an authorized user on an already soft-deleted
\* message, handled with no other request around, replies delete-success with
\* the original deletedAt and leaves the stored deletedAt and deletedBy as the
\* first deletion set them.
C4_SecondDeleteKeepsFirstDeletion ==
    \A r \in Reqs :
      /\ Done(r, "delete") /\ Alone(r)
      /\ req[r].doc0.isDeleted /\ Authorized(req[r].doc0, req[r].uid)
      => /\ \E e \in EventsOf(r) :
              e.ev = "delete-success" /\ e.at = req[r].doc0.deletedAt
         /\ SameDeletion(FindById(store, req[r].mid), req[r].doc0)

\* ---- C5 ------------------------------------------------------------------
JoinResolves(r) ==
    req[r].kind = "join" /\ req[r].pc = "query" /\ req'[r].pc = "done"

IsSortedByCreatedAt(b) ==
    \A k \in 1..(Len(b) - 1) : b[k].createdAt <= b[k + 1].createdAt

C5_Step ==
    /\ \A e \in sent' \ sent :
         e.ev = "pending-messages" => \E r \in Reqs : JoinResolves(r) /\ e.req = r
    /\ \A r \in Reqs :
         JoinResolves(r) =>
           LET u == req[r].uid
               P == {i \in 1..Len(store) :
                       /\ store[i].receiverId = u
                       /\ u \notin store[i].seenBy
                       /\ ~store[i].isDeleted}
           IN  IF P = {}
               THEN sent' = sent
               ELSE \E e \in sent' \ sent :
                      /\ sent' \ sent = {e}
                      /\ e.ev = "pending-messages"
                      /\ e.to = {req[r].conn}
                      /\ Len(e.batch) = Cardinality(P)
                      /\ {e.batch[k] : k \in 1..Len(e.batch)} = {store[i] : i \in P}
                      /\ IsSortedByCreatedAt(e.batch)

\* C5: when the pending query of join(u) resolves, one pending-messages event
\* goes to the joining connection alone, carrying exactly the stored messages
\* with receiverId = u, u not in seenBy and isDeleted = false, oldest first;
\* nothing is emitted when there is no such message, and nothing else emits
\* pending-messages.
C5_JoinDeliversExactlyThePending == [][C5_Step]_vars

C5_Witness ==
    \E e \in sent :
      /\ e.ev = "pending-messages" /\ Len(e.batch) = 2
      /\ e.batch[1].id = "m2" /\ e.batch[2].id = "m1"
      /\ store[1].id = "m1"

\* ---- C6 ------------------------------------------------------------------
Delivered(q) ==
    Done(q, "message") /\ \E e \in EventsOf(q) : e.status = "delivered"

C6_Step ==
    \A r \in Reqs :
      /\ JoinResolves(r)
      /\ \A q \in Reqs : q # r => ~(req[q].kind = "join" /\ req[q].uid = req[r].uid)
      => \A q \in Reqs :
           /\ Delivered(q)
           /\ FindById(store, req[q].mid).receiverId = req[r].uid
           /\ ~FindById(store, req[q].mid).isDeleted
           => \E e \in sent' \ sent :
                /\ e.ev = "pending-messages"
                /\ \E k \in 1..Len(e.batch) : e.batch[k].id = req[q].mid

\* C6: at the first join of a user, every message that was sent (acknowledged
\* 'delivered') before, while that user had no connection, and that has not
\* been soft-deleted, is in the pending-messages batch of that join, whatever
\* the valid payload of the send was.
C6_OfflineMessageIsInNextJoinBatch == [][C6_Step]_vars

\* ---- C7 ------------------------------------------------------------------
Ids(b) == {b[k].id : k \in 1..Len(b)}

ActiveIds(s, t) ==
    Ids(ListActive(s, DefaultLimit, 0)) \cup Ids(History(s, HistoryLimit, 0))
    \cup Ids(RouterAll(s))
    \cup UNION {Ids(FindPending(s, u)) \cup Ids(PendingForUser(s, u, t))
                \cup Ids(RouterUser(s, u)) : u \in Users}

C7_Step ==
    \A i \in 1..Len(store) :
      store[i].isDeleted =>
        LET d == FindById(store', store[i].id)
        IN  /\ d # NoDoc /\ d.isDeleted
            /\ d.deletedAt # NoTime /\ d.deletedBy # None
            /\ store[i].id \notin ActiveIds(store', now')

\* C7: once a message is soft-deleted, after every later step it is in no
\* active query (the join pending batch, GET /api/messages, history, pending
\* for a user, the per-user listing), and lookup by id returns it with
\* isDeleted true and a deletedAt and deletedBy.
C7_SoftDeletedStaysOutOfActiveQueries == [][C7_Step]_vars

\* ---- C8 ------------------------------------------------------------------
C8_Step ==
    \A r \in Reqs :
      req[r].kind = "delete" =>
        LET doc == FindById(store, req[r].mid)
            mayDelete == doc # NoDoc /\ Authorized(doc, req[r].uid)
        IN  /\ req[r].pc = "update" /\ req'[r].pc # "update"
               /\ mayDelete /\ ~doc.isDeleted
               => /\ FindById(store', req[r].mid).isDeleted
                  /\ FindById(store', req[r].mid).deletedAt = req[r].at
                  /\ req[r].at # NoTime
                  /\ FindById(store', req[r].mid).deletedBy = req[r].uid
                  /\ req[r].mid \notin Ids(ListActive(store', DefaultLimit, 0))
                  /\ req'[r].pc = "find1"
            /\ req[r].pc = "find1" /\ req'[r].pc # "find1" /\ mayDelete
               => /\ req'[r].pc = "done"
                  /\ store' = store
                  /\ \E b, a \in sent' \ sent :
                       /\ sent' \ sent = {b, a}
                       /\ b.ev = "message-deleted" /\ b.mid = req[r].mid
                       /\ b.by = req[r].uid /\ b.at = doc.deletedAt
                       /\ b.to = {c \in Conns : sock[c].open}
                       /\ a.ev = "delete-success" /\ a.mid = req[r].mid
                       /\ a.to = {req[r].conn}

\* C8: the soft-delete update of a delete-message by the sender or resolved
\* receiver, applied to an active message, sets isDeleted, deletedAt and
\* deletedBy = requester and takes the message out of listActive; the handler
\* then broadcasts message-deleted{messageId, deletedAt, deletedBy} to every
\* open connection and replies delete-success to the requester.
C8_AuthorizedDeleteSoftDeletesAndAnnounces == [][C8_Step]_vars

C8_Witness ==
    \E r \in Reqs :
      /\ Done(r, "delete") /\ req[r].uid = "user_2"
      /\ req[r].doc0 # NoDoc /\ ~req[r].doc0.isDeleted
      /\ req[r].doc0.sender = "user_1"
      /\ FindById(store, req[r].mid).deletedBy = "user_2"
      /\ \E e \in EventsOf(r) : e.ev = "message-deleted" /\ e.to = Conns
      /\ \E e \in EventsOf(r) : e.ev = "delete-success"

\* ---- C9 ------------------------------------------------------------------
\* C9: every delete-success and every message-deleted was emitted for a
\* request whose userId is the sender or the resolved receiver of the message.
C9_OnlyParticipantsGetDeleteSuccess ==
    \A e \in sent :
      e.ev \in {"delete-success", "message-deleted"} =>
        Authorized(FindById(store, req[e.req].mid), req[e.req].uid)

\* ---- C10 -----------------------------------------------------------------
\* C10: every record persisted by a send that carries no receiverId has
\* receiverId user_2 when its sender is user_1 and user_1 for every other
\* sender, and so never the sender's own id.
C10_ReceiverIsTheOtherParty ==
    \A i \in 1..Len(store) :
      /\ store[i].sender = "user_1" => store[i].receiverId = "user_2"
      /\ store[i].sender # "user_1" => store[i].receiverId = "user_1"
      /\ store[i].receiverId # store[i].sender

C10_Witness ==
    /\ \E i \in 1..Len(store) :
         store[i].sender = "user_3" /\ store[i].receiverId = "user_1"
    /\ \E i \in 1..Len(store) :
         store[i].sender = "user_1" /\ store[i].receiverId = "user_2"

\* ---- C11 -----------------------------------------------------------------
\* C11: the record persisted by a send has the receiverId the payload carried,
\* and otherOf(sender) only when the payload carried none.
C11_PayloadReceiverIsPersisted ==
    \A r \in Reqs :
      Delivered(r) =>
        FindById(store, req[r].mid).receiverId =
          IF req[r].receiverId # None THEN req[r].receiverId
          ELSE otherOf(req[r].uid)

\* ---- C12 -----------------------------------------------------------------
\* C12: the record persisted by a send has seenBy = {sender}, whatever seenBy
\* the payload supplied (none, an empty list, a list without the sender).
C12_SeenByIsTheSender ==
    \A r \in Reqs :
      Delivered(r) => FindById(store, req[r].mid).seenBy = {req[r].uid}

\* ---- C13 -----------------------------------------------------------------
Persists(r) ==
    /\ req[r].kind = "message" /\ req[r].pc = "save" /\ req'[r].pc # "save"
    /\ store' # store

C13_Step ==
    \A r \in Reqs :
      Persists(r) =>
        \E b, a \in sent' \ sent :
          /\ sent' \ sent = {b, a}
          /\ b.ev = "message" /\ b.mid = req[r].mid
          /\ b.batch = <<FindById(store', req[r].mid)>>
          /\ b.to = {c \in Conns : sock[c].open}
          /\ a.ev = "message-delivered" /\ a.status = "delivered"
          /\ a.mid = req[r].mid
          /\ a.to = {c \in {req[r].conn} : sock[c].open}

C13_Inv ==
    \A e \in sent :
      e.status = "delivered" \/ e.ev = "message" =>
        /\ HasId(store, e.mid)
        /\ e.status = "delivered" => e.to \subseteq {req[e.req].conn}

\* C13: the step of a send that persists a new message emits the persisted
\* message as a `message` event to every connection open at that moment
\* (joined or not, the sender's included) and message-delivered 'delivered'
\* to the sender's connection; no other connection ever receives a 'delivered'
\* acknowledgement, and neither event exists for an id that is not stored.
C13_PersistedMessageIsBroadcastAndAcknowledged == []C13_Inv /\ [][C13_Step]_vars

C13_Witness ==
    \E b, a \in sent :
      /\ b.ev = "message" /\ b.to = Conns /\ Len(b.batch) = 1
      /\ a.status = "delivered" /\ a.to = {"s2"} /\ a.mid = b.mid
      /\ sock["s1"].userId = None /\ sock["s2"].userId = "user_2"

\* ---- C14 -----------------------------------------------------------------
Arrives(r, kind) == req[r].pc = "idle" /\ req'[r].kind = kind

LacksRequired(q) == q.mid = None \/ q.uid = NoUser \/ q.uid = None

OnlyEvent(r, ev, to) ==
    \E e \in sent :
      /\ EventsOf(r) = {e}
      /\ e.ev = ev /\ e.to = to

C14_Step ==
    \A r \in Reqs :
      Arrives(r, "message") /\ LacksRequired(req'[r]) =>
        /\ store' = store /\ pushes' = pushes
        /\ req'[r].pc = "done"
        /\ \E e \in sent' \ sent :
             /\ sent' \ sent = {e}
             /\ e.ev = "error" /\ e.req = r /\ e.to = {req'[r].conn}

C14_Inv ==
    \A r \in Reqs :
      req[r].kind = "message" /\ LacksRequired(req[r]) =>
        /\ req[r].pc = "done"
        /\ OnlyEvent(r, "error", {req[r].conn})
        /\ \A a \in pushes : a.req # r

\* C14: a send whose payload lacks an id, a user or a user id ends in the
\* step in which it arrives: nothing is stored, nothing is broadcast, no push
\* is attempted, and its only event is an error to the sending connection.
C14_InvalidSendIsRejected == []C14_Inv /\ [][C14_Step]_vars

C14_Witness ==
    \E r \in Reqs :
      /\ req[r].kind = "message" /\ req[r].uid = NoUser /\ req[r].mid = "m1"
      /\ OnlyEvent(r, "error", {"s1"})
      /\ userPushTokens["user_2"] # None /\ ~HasId(store, "m1")

\* ---- C15 -----------------------------------------------------------------
InsertFailed(q) == q.kind = "message" /\ "save" \in q.fault

C15_Step ==
    \A r \in Reqs :
      req[r].pc = "save" /\ InsertFailed(req'[r]) =>
        /\ store' = store /\ pushes' = pushes
        /\ req'[r].pc = "done"
        /\ \E e \in sent' \ sent :
             /\ sent' \ sent = {e}
             /\ e.ev = "error" /\ e.req = r /\ e.to = {req[r].conn}

\* r is a resend of an id whose every other send failed at the insert
ResendAfterFailure(r) ==
    /\ Done(r, "message") /\ req[r].fault = {} /\ ~LacksRequired(req[r])
    /\ \E q \in Reqs : q < r /\ InsertFailed(req[q]) /\ req[q].mid = req[r].mid
    /\ \A q \in Reqs \ {r} : req[q].mid = req[r].mid => InsertFailed(req[q])

C15_Inv ==
    \A r \in Reqs :
      /\ InsertFailed(req[r]) =>
           /\ req[r].pc = "done"
           /\ OnlyEvent(r, "error", {req[r].conn})
           /\ (HasId(store, req[r].mid) =>
                 \E e \in sent : e.status = "delivered" /\ e.mid = req[r].mid
                                  /\ e.req # r)
      /\ ResendAfterFailure(r) =>
           /\ Cardinality(Indexes(store, req[r].mid)) = 1
           /\ \E e \in EventsOf(r) : e.status = "delivered"
           /\ \A e \in EventsOf(r) : e.ev # "error"

\* C15: when the insert of a send is rejected by the storage, the handler
\* ends in that step: the store is unchanged, no push is attempted, and the
\* only event of the send is an error to its own connection (no broadcast,
\* no acknowledgement, no retry); the id is stored only if another send
\* persisted it, and a later resend of the id that meets no failure is
\* persisted once and acknowledged 'delivered'.
C15_FailedInsertIsReportedAndResendable == []C15_Inv /\ [][C15_Step]_vars

C15_Witness ==
    \E q, r \in Reqs :
      /\ q < r /\ InsertFailed(req[q]) /\ req[q].doc0 = NoDoc
      /\ ResendAfterFailure(r) /\ req[r].doc0 = NoDoc
      /\ Len(store) = 1 /\ store[1].id = req[q].mid

\* ---- C16 -----------------------------------------------------------------
\* the push send or the persist that follows it failed, and nothing else did
PushFailed(q) ==
    q.kind = "message" /\ q.fault # {} /\ q.fault \subseteq {"push", "mark"}

C16_Step ==
    \A r \in Reqs :
      /\ req[r].kind = "message" /\ req[r].pc \in {"push", "mark"}
      /\ req'[r].fault # req[r].fault
      => /\ sent' = sent
         /\ store' = store
         /\ req'[r].pc = "count"

C16_Inv ==
    \A r \in Reqs :
      PushFailed(req[r]) =>
        /\ HasId(store, req[r].mid)
        /\ ~FindById(store, req[r].mid).pushNotificationSent
        /\ \E e \in EventsOf(r) : e.ev = "message" /\ e.mid = req[r].mid
        /\ \E e \in EventsOf(r) : e.status = "delivered" /\ e.mid = req[r].mid
        /\ \A e \in EventsOf(r) : e.ev # "error"

\* C16: when the push send of a send, or the persist of pushNotificationSent
\* that follows it, fails (and no other call of the handler does), the step
\* of the failure emits nothing and changes no record: the message stays
\* persisted, its broadcast and 'delivered' acknowledgement have been emitted
\* and the sender receives no error event.
C16_PushFailureDoesNotFailTheSend == []C16_Inv /\ [][C16_Step]_vars

C16_Witness ==
    \E r \in Reqs :
      /\ Done(r, "message") /\ req[r].fault = {"push"}
      /\ \E a \in pushes : a.req = r /\ a.to = "ExpoPushToken[b]"
      /\ \E e \in EventsOf(r) : e.status = "delivered"
      /\ HasId(store, req[r].mid)

\* ---- C17 -----------------------------------------------------------------
\* the receiver of a send as the message carries it, derived when it carries none
ReceiverOf(q) == IF q.receiverId # None THEN q.receiverId ELSE otherOf(q.uid)

C17_Step ==
    /\ pushes' # pushes =>
          \E r \in Reqs, a \in pushes' :
            /\ Persists(r) /\ pushes' = pushes \cup {a}
            /\ a.req = r /\ a.mid = req[r].mid
    /\ \A r \in Reqs :
          Persists(r) =>
            LET token == userPushTokens[ReceiverOf(req[r])]
            IN  IF token # None /\ IsExpoPushToken(token)
                THEN \E a \in pushes' \ pushes : a.to = token
                ELSE pushes' = pushes

C17_Inv ==
    /\ \A a, b \in pushes : a.mid = b.mid => a = b
    /\ \A i \in 1..Len(store) :
          store[i].pushNotificationSent =>
            \E a \in pushes :
              /\ a.mid = store[i].id
              /\ "push" \notin req[a.req].fault
              /\ req[a.req].pc \in {"count", "done"}

\* C17: a push send is attempted only by the step of a send that persists a
\* new message, at most once per message id, and exactly when the receiver of
\* that message (the one it carries, else otherOf(sender)) has a well-formed
\* token in memory, to that token; pushNotificationSent is stored as true
\* only after that push send resolved.
C17_OnePushPerNewMessageToItsReceiver == []C17_Inv /\ [][C17_Step]_vars

\* ---- C18 -----------------------------------------------------------------
Malformed == {"not-a-token", None}

C18_Step ==
    \A r \in Reqs :
      /\ Arrives(r, "register") \/ Arrives(r, "save-push-token")
      /\ req'[r].token \in Malformed
      => /\ userPushTokens' = userPushTokens
         /\ userStatus' = userStatus
         /\ req'[r].pc = "done"
         /\ \E e \in sent' \ sent :
              /\ sent' \ sent = {e} /\ e.req = r
              /\ IF req'[r].kind = "register"
                 THEN e.ev = "push-token-error" /\ e.to = {req'[r].conn}
                 ELSE e.ev = "response" /\ e.status = "400"

C18_Inv ==
    /\ \A u \in Users : userPushTokens[u] \notin Malformed \ {None}
    /\ \A u \in Users : userStatus[u] \notin Malformed \ {None}
    /\ \A r \in Reqs :
         req[r].kind \in {"register", "save-push-token"}
         /\ req[r].token \in Malformed
         => /\ req[r].pc = "done"
            /\ \A e \in EventsOf(r) : e.ev = "push-token-error" \/ e.status = "400"

\* C18: a register-push-token event, or a POST /api/save-push-token, with a
\* malformed token ends in the step in which it arrives: it is answered with
\* push-token-error (HTTP 400 on the REST surface) and neither the token in
\* memory nor the persisted registration of any user changes; no malformed
\* token is ever held in either place.
C18_MalformedTokenIsRejected == []C18_Inv /\ [][C18_Step]_vars

C18_Witness ==
    \E q, r \in Reqs :
      /\ req[q].kind = "register" /\ req[q].token = "not-a-token"
      /\ req[q].uid = "user_2" /\ OnlyEvent(q, "push-token-error", {"s1"})
      /\ req[r].kind = "save-push-token" /\ req[r].token = "not-a-token"
      /\ \E e \in EventsOf(r) : e.status = "400"
      /\ userPushTokens["user_2"] = "ExpoPushToken[a]"
      /\ userStatus["user_2"] = "ExpoPushToken[a]"

\* ---- C19 -----------------------------------------------------------------
\* C19: every entry of the presence table (connectedUsers) refers to a
\* connection that is still open.
C19_PresenceRefersToOpenConnection ==
    \A u \in Users :
      connectedUsers[u] # None => sock[connectedUsers[u]].open

\* ---- C20 -----------------------------------------------------------------
Closes(c) == sock[c].open /\ ~sock'[c].open

C20_Step ==
    \A u \in Users :
      connectedUsers[u] # None /\ connectedUsers'[u] # connectedUsers[u] =>
        \/ Closes(connectedUsers[u])
        \/ \E r \in Reqs :
             /\ Arrives(r, "join") /\ req'[r].uid = u
             /\ connectedUsers'[u] = req'[r].conn

\* C20: the presence entry of a user changes only when the connection it
\* refers to disconnects or when a newer join of that user overwrites it; the
\* disconnect of an older connection of the user leaves the entry in place.
C20_PresenceEntrySurvivesOlderDisconnect == [][C20_Step]_vars

\* ---- C21 -----------------------------------------------------------------
\* connection c is joined and open, but its user has joined elsewhere since
Superseded(c) ==
    /\ sock[c].open /\ sock[c].userId # None
    /\ connectedUsers[sock[c].userId] # c

\* C21 (as stated): a message is delivered to a joined connection only while
\* that connection is the most recently joined one of its user.
C21_OnlyLatestConnectionReceives ==
    [][\A r \in Reqs :
         Persists(r) =>
           \A b \in sent' \ sent :
             b.ev = "message" => \A c \in b.to : ~Superseded(c)]_vars

C21_Step ==
    \A r \in Reqs :
      Persists(r) =>
        \A c \in Conns :
          sock[c].open /\ sock[c].userId # None =>
            \E b \in sent' \ sent : b.ev = "message" /\ c \in b.to

\* C21 (amended): the presence table is not consulted for delivery: every open
\* joined connection receives the `message` event of a persisted send, the
\* older connection of a user with two connections as well as the newer one.
C21_EveryJoinedConnectionReceives == [][C21_Step]_vars

C21_Witness ==
    \E b \in sent :
      /\ b.ev = "message" /\ b.to = Conns /\ b.batch[1].sender = "user_1"
      /\ sock["s1"].userId = "user_2" /\ sock["s2"].userId = "user_2"
      /\ sock["s1"].open /\ sock["s2"].open
      /\ connectedUsers["user_2"] = "s2"
      /\ \A r \in Reqs : req[r].kind # "join"

\* ---- C22 -----------------------------------------------------------------
C22_Step ==
    \A c \in Conns :
      Closes(c) =>
        /\ UNCHANGED <<store, now, req, sent, userPushTokens, userStatus, pushes>>
        /\ \A d \in Conns \ {c} : sock'[d] = sock[d]
        /\ sock'[c].userId = sock[c].userId
        /\ \A u \in PresenceKeys :
             u # sock[c].userId => connectedUsers'[u] = connectedUsers[u]
        /\ sock[c].userId = None => connectedUsers' = connectedUsers

\* C22: the disconnect of a connection changes, besides the connection being
\* closed, at most the presence entry of the userId joined on it: the
\* Message Store, the token registry in memory and persisted, the emitted
\* events and every other presence entry are as before, and the disconnect of
\* a connection that never joined leaves the presence table as it was.
C22_DisconnectOnlyRemovesOwnPresence == [][C22_Step]_vars

C22_Witness ==
    /\ ~sock["s1"].open /\ sock["s1"].userId = "user_1"
    /\ connectedUsers["user_1"] = None
    /\ sock["s2"].open /\ connectedUsers["user_2"] = "s2"
    /\ Len(store) = 2 /\ userPushTokens["user_2"] = "ExpoPushToken[a]"
    /\ userStatus["user_2"] = "ExpoPushToken[a]"

\* ---- C23 -----------------------------------------------------------------
\* C23: a join with an empty userId registers no presence entry and is sent
\* no pending-messages batch.
C23_EmptyJoinIsNotAccepted ==
    /\ connectedUsers[EmptyId] = None
    /\ \A r \in Reqs :
         req[r].kind = "join" /\ req[r].uid = EmptyId => EventsOf(r) = {}

\* ---- C24 -----------------------------------------------------------------
\* the handler of q has run to completion (or has ended in a rejection)
Ended(q) == req[q].pc \in {"done", "rejected"}

\* C24: an event that arrives on a connection is not taken up while the
\* handler of an earlier event of the same connection has not run to
\* completion.
C24_SameConnectionEventsDoNotInterleave ==
    \A q, r \in Reqs :
      /\ q < r /\ req[r].pc # "idle"
      /\ req[q].conn = req[r].conn
      => Ended(q)

\* ---- C25 -----------------------------------------------------------------
\* C25: no handler ends in a rejection that nothing handles: whatever the
\* payload (also none) and whichever awaited call fails, the failure is caught.
C25_NoHandlerEndsInUnhandledRejection ==
    \A r \in Reqs : req[r].pc # "rejected"

\* ---- C26 -----------------------------------------------------------------
\* C26: in every reachable state the reactions of each stored message hold at
\* most one entry per user, whether the message came from a send whose payload
\* carries reactions or was changed by message-reaction events.
OneEntryPerUser(reactions) ==
    \A j, k \in 1..Len(reactions) :
        reactions[j].user = reactions[k].user => j = k

C26_AtMostOneReactionPerUser ==
    \A i \in 1..Len(store) : OneEntryPerUser(store[i].reactions)

\* ---- C27 -----------------------------------------------------------------
\* a step of the delete-message request r taken while its id is not stored,
\* the awaited call resolving
StepsOnAbsent(r) ==
    /\ req[r].kind = "delete" /\ req[r].pc \in {"update", "find0", "find1"}
    /\ req'[r].pc # req[r].pc /\ req'[r].fault = req[r].fault
    /\ ~HasId(store, req[r].mid)

C27_Step ==
    \A r \in Reqs :
      StepsOnAbsent(r) =>
        /\ store' = store
        /\ req[r].pc # "find1"
        /\ req[r].pc = "update" => req'[r].pc = "find0" /\ sent' = sent
        /\ req[r].pc = "find0" =>
             /\ req'[r].pc = "done"
             /\ sent' \ sent =
                  { Event(r, "delete-error", {req[r].conn} \cap OpenConns,
                          req[r].mid, "not-found", NoTime, None, NoBatch) }

C27_Inv ==
    \A r \in Reqs :
      req[r].kind = "delete" /\ req[r].pc \in {"update", "find0"}
        => EventsOf(r) = {}

\* C27: a delete-message for an id that is not in the store, its storage calls
\* resolving, changes nothing in the store and emits one event only,
\* delete-error (message not found), to the requesting connection: no
\* message-deleted, no delete-success.
C27_DeleteOfAbsentIdIsNotFound == []C27_Inv /\ [][C27_Step]_vars

C27_Witness ==
    \E r \in Reqs :
      /\ Done(r, "delete") /\ req[r].doc0 = NoDoc
      /\ ~HasId(store, req[r].mid) /\ store # <<>>
      /\ EventsOf(r) =
           { Event(r, "delete-error", {req[r].conn}, req[r].mid, "not-found",
                   NoTime, None, NoBatch) }
      /\ \E q \in Reqs : req[q].kind = "message" /\ req[q].mid = req[r].mid

\* ---- C28 -----------------------------------------------------------------
\* the save of the send r inserts its document
Inserts(r) ==
    /\ req[r].kind = "message" /\ req[r].pc = "save" /\ req'[r].pc # "save"
    /\ store' # store

C28_Step ==
    \A r \in Reqs :
      Inserts(r) =>
        LET message == NewMessage(req[r], req[r].at)
            retrieved == FindById(store', message.id)
        IN  /\ retrieved # NoDoc
            /\ retrieved.id = message.id
            /\ retrieved.text = message.text
            /\ Len(store') = Len(store) + 1

C28_Inv ==
    \A i \in 1..Len(store) : FindById(store, store[i].id) = store[i]

\* C28: a message inserted into the store is returned by findById with the
\* same id and the same text, at the insert and in every later state, and a
\* successful insert raises the number of stored documents by exactly one.
C28_InsertedMessageIsFoundById == []C28_Inv /\ [][C28_Step]_vars

C28_Witness ==
    \E r \in Reqs :
      /\ Done(r, "message") /\ req[r].doc0 = NoDoc /\ req[r].text = "hi"
      /\ FindById(store, req[r].mid).text = "hi"
      /\ Len(store) = 2

\* ---- C29 -----------------------------------------------------------------
\* the outcome class of a finished delete, by event or by REST
OutcomeClass(r) ==
    IF \E e \in EventsOf(r) : e.ev = "delete-success" \/ e.status = "200"
    THEN "success"
    ELSE IF \E e \in EventsOf(r) : e.status \in {"not-found", "404"}
    THEN "not found"
    ELSE IF \E e \in EventsOf(r) : e.status \in {"unauthorized", "403"}
    THEN "unauthorized"
    ELSE "other"

\* what a delete leaves of the document, the time of the deletion aside
Deletion(doc) ==
    <<doc = NoDoc, doc.isDeleted, doc.deletedBy, doc.deletedAt = NoTime>>

\* C29: from the same store and for the same requester, the delete-message
\* event and DELETE /api/messages/:id, each run alone on its copy of a
\* document, end in the same outcome class (success, not found, unauthorized)
\* and leave their copies in the same state.
C29_RestAndEventDeleteAgree ==
    \A r, q \in Reqs :
      /\ Done(r, "delete") /\ Done(q, "rest-delete")
      /\ req[r].uid = req[q].uid
      /\ \A x \in Reqs \ {r, q} : req[x].pc = "idle"
      => /\ OutcomeClass(r) = OutcomeClass(q)
         /\ Deletion(FindById(store, "m1")) = Deletion(FindById(store, "m2"))

\* ---- C30 -----------------------------------------------------------------
\* the finished delete-message r was announced as a success
Announced(r) ==
    /\ \E e \in EventsOf(r) : e.ev = "delete-success"
    /\ \E e \in EventsOf(r) : e.ev = "message-deleted"

\* C30: when a delete-message of an authorized requester and one of an
\* unauthorized requester for the same message have both finished, however
\* their steps interleaved, and the authorized one was answered delete-success
\* with message-deleted broadcast, the message is soft-deleted in the store.
C30_AnnouncedDeleteSurvivesUnauthorizedDelete ==
    \A a, u \in Reqs :
      LET doc == FindById(store, req[a].mid)
      IN  /\ Done(a, "delete") /\ Done(u, "delete")
          /\ req[a].mid = req[u].mid /\ doc # NoDoc
          /\ Authorized(doc, req[a].uid) /\ ~Authorized(doc, req[u].uid)
          /\ Announced(a)
          /\ \A x \in Reqs \ {a, u} : req[x].pc = "idle"
          => doc.isDeleted

\* ---- C31 -----------------------------------------------------------------
\* the delete-message r of an unauthorized requester is being processed, its
\* target was active when it arrived, and no other delete has been received
UnauthorizedInFlight(r) ==
    /\ req[r].kind = "delete" /\ req[r].pc \in {"update", "find0", "find1", "revert"}
    /\ req[r].doc0 # NoDoc /\ ~req[r].doc0.isDeleted
    /\ ~Authorized(req[r].doc0, req[r].uid)
    /\ \A q \in Reqs \ {r} : req[q].kind # "delete"

\* C31: at every intermediate state of an unauthorized delete-message, the
\* target, active before the request, is returned by the active queries (GET
\* /api/messages, history, the listing of the router) and, when it is pending
\* for a user, by that user's pending queries.
C31_UnauthorizedDeleteIsNeverObserved ==
    \A r \in Reqs :
      UnauthorizedInFlight(r) =>
        /\ req[r].mid \in Ids(ListActive(store, DefaultLimit, 0))
        /\ req[r].mid \in Ids(History(store, HistoryLimit, 0))
        /\ req[r].mid \in Ids(RouterAll(store))
        /\ \A u \in Users :
             IsPending(req[r].doc0, u) =>
               /\ req[r].mid \in Ids(FindPending(store, u))
               /\ req[r].mid \in Ids(PendingForUser(store, u, now))

\* ---- C32 -----------------------------------------------------------------
\* the broadcast and the 'delivered' acknowledgement of the send r for id
Announces(r, id) ==
    /\ \E e \in EventsOf(r) : e.ev = "message" /\ e.mid = id
    /\ \E e \in EventsOf(r) :
         e.ev = "message-delivered" /\ e.status = "delivered" /\ e.mid = id

C32_Inv ==
    /\ \A e \in sent :
         e.ev = "message" \/ e.status = "delivered" => HasId(store, e.mid)
    /\ \A a \in pushes : Announces(a.req, a.mid)
    /\ \A r \in Reqs :
         req[r].kind = "message" /\ req[r].pc \in {"push", "mark"}
           => Announces(r, req[r].mid)

C32_Step ==
    \A r \in Reqs :
      req[r].kind = "message" /\ req[r].pc = "push" /\ req'[r].pc # "push"
        => sent' = sent /\ Announces(r, req[r].mid)

\* C32: a message broadcast or 'delivered' acknowledgement for id m is only
\* emitted with m's record in the store; when the push send for m is
\* attempted, and for as long as it is pending, both have been emitted, and
\* the step in which the push resolves or fails emits nothing and takes none
\* of them back.
C32_AnnouncedAfterPersistBeforePush == []C32_Inv /\ [][C32_Step]_vars

C32_Witness ==
    \E r \in Reqs :
      /\ req[r].kind = "message" /\ req[r].pc = "push"
      /\ \E a \in pushes : a.req = r /\ a.mid = req[r].mid
      /\ Announces(r, req[r].mid) /\ HasId(store, req[r].mid)
      /\ \E q \in Reqs : PushFailed(req[q]) /\ Announces(q, req[q].mid)

\* ---- C33 -----------------------------------------------------------------
\* the replies that end a send for its sender
TerminalReplies(r) ==
    {e \in EventsOf(r) : e.ev \in {"message-delivered", "error"}}

\* C33: a finished send has been answered with exactly one terminal reply,
\* message-delivered 'delivered', message-delivered 'duplicate' or error; a
\* send acknowledged 'delivered' is not also answered with an error, whatever
\* storage call fails after the acknowledgement.
C33_ExactlyOneTerminalReply ==
    \A r \in Reqs :
      Done(r, "message") => Cardinality(TerminalReplies(r)) = 1

\* ---- C34 -----------------------------------------------------------------
RegistrationInFlight ==
    \E r \in Reqs :
      req[r].kind \in {"register", "save-push-token"} /\ req[r].pc = "upsert"

\* C34: whenever no token registration is in flight, every user with a token
\* in the in-memory registry has the same token in the persisted record,
\* also after a registration whose upsert failed and after two registrations
\* of one user whose upserts completed in either order.
C34_RegistryMirrorsPersistedTokens ==
    ~RegistrationInFlight =>
      \A u \in Users :
        userPushTokens[u] # None => userStatus[u] = userPushTokens[u]

\* ---- C35 -----------------------------------------------------------------
\* the finished message-reaction r set an emoji on a stored, active message
Reacted(r) ==
    /\ Done(r, "message-reaction") /\ req[r].emoji # None
    /\ req[r].doc0 # NoDoc /\ ~req[r].doc0.isDeleted

\* C35: when two message-reaction events of different users on one message
\* have both finished, however their steps interleaved, the stored reactions
\* hold the entry of each of the two users.
C35_ConcurrentReactionsAreBothStored ==
    \A r, q \in Reqs :
      /\ Reacted(r) /\ Reacted(q)
      /\ req[r].mid = req[q].mid /\ req[r].uid # req[q].uid
      /\ \A x \in Reqs \ {r, q} : req[x].pc = "idle"
      => LET stored == FindById(store, req[r].mid).reactions
         IN  \A x \in {r, q} :
               \E k \in 1..Len(stored) :
                 stored[k] = Reaction(req[x].uid, req[x].emoji)

\* ---- C36 -----------------------------------------------------------------
\* the send r arrived with the id of a soft-deleted message
ReusesDeletedId(r) ==
    req[r].kind = "message" /\ req[r].doc0 # NoDoc /\ req[r].doc0.isDeleted

C36_Step ==
    \A r \in Reqs :
      ReusesDeletedId(r) /\ req'[r].pc # req[r].pc =>
        /\ store' = store /\ pushes' = pushes
        /\ req[r].pc = "find" /\ req'[r].pc = "done"
        /\ sent' \ sent =
             { Event(r, "message-delivered", {req[r].conn} \cap OpenConns,
                     req[r].mid, "duplicate", NoTime, None, NoBatch) }

C36_Inv ==
    \A r \in Reqs :
      ReusesDeletedId(r) =>
        /\ Cardinality(Indexes(store, req[r].mid)) = 1
        /\ FindById(store, req[r].mid).sender = req[r].doc0.sender
        /\ \A a \in pushes : a.req # r
        /\ \A e \in EventsOf(r) : e.ev = "message-delivered" /\ e.status = "duplicate"
        /\ req[r].pc = "done" => EventsOf(r) # {}

\* C36: a send whose id is that of a soft-deleted message is answered with
\* message-delivered 'duplicate' and nothing else: no step of it changes the
\* store (the deleted record is not overwritten or made active), nothing is
\* broadcast, no push is attempted, and the id stays stored once.
C36_DeletedIdIsNotReused == []C36_Inv /\ [][C36_Step]_vars

C36_Witness ==
    \E r \in Reqs :
      /\ Done(r, "message") /\ req[r].doc0.isDeleted /\ req[r].uid = "user_3"
      /\ FindById(store, req[r].mid).isDeleted
      /\ FindById(store, req[r].mid).sender = "user_1"
      /\ \E e \in EventsOf(r) : e.status = "duplicate" /\ e.to = {req[r].conn}

\* ---- C37 -----------------------------------------------------------------
\* the stored document doc has reached the connection of the join r: in the
\* pending-messages batch of r, or as a message broadcast
Reached(r, doc) ==
    \/ \E e \in EventsOf(r) :
         /\ e.ev = "pending-messages" /\ req[r].conn \in e.to
         /\ \E k \in 1..Len(e.batch) : e.batch[k].id = doc.id
    \/ \E e \in sent :
         e.ev = "message" /\ e.mid = doc.id /\ req[r].conn \in e.to

\* C37: when the join of user u has been served and its connection is open,
\* every stored, non-deleted message with receiverId u and u not in seenBy
\* has been sent to that connection, in the pending-messages batch of the
\* join or as a message broadcast, however sends interleaved with the query.
C37_JoinedUserMissesNoMessage ==
    \A r \in Reqs :
      Done(r, "join") /\ sock[req[r].conn].open =>
        \A i \in 1..Len(store) :
          IsPending(store[i], req[r].uid) => Reached(r, store[i])

C37_Witness ==
    \E r, q \in Reqs :
      /\ Done(r, "join") /\ sock[req[r].conn].open /\ req[r].uid = "user_2"
      /\ Delivered(q) /\ IsPending(FindById(store, req[q].mid), "user_2")
      /\ \E e \in EventsOf(r) :
           /\ e.ev = "pending-messages" /\ Len(e.batch) = 1
           /\ e.batch[1].id # req[q].mid
      /\ Len(store) = 2

\* ---- C38 -----------------------------------------------------------------
\* what identifies a message and addresses it
Addressing(doc) ==
    <<doc.id, doc.sender, doc.receiverId, doc.createdAt, doc.seenBy>>

C38_Step ==
    \A i \in 1..Len(store) :
      /\ i <= Len(store')
      /\ Addressing(store'[i]) = Addressing(store[i])
      /\ \A u \in Users :
           IsPending(store[i], u) /\ ~store'[i].isDeleted
             => store[i].id \in Ids(FindPending(store', u))

\* C38: no step of a relay event changes the id, sender, receiverId,
\* createdAt or seenBy of a persisted message, so that a message pending for
\* a user stays in the result of the pending query of that user's joins for
\* as long as it is not soft-deleted.
C38_AddressingOfPersistedMessageIsFixed == [][C38_Step]_vars

=============================================================================
